---- MODULE Spec2Model ----
(***************************************************************************)
(* The instrumented sorting engine of services/sortingService.ts and the   *)
(* arena hook of App.tsx that drives it.                                   *)
(*                                                                         *)
(* A variant is an async function: between two awaits it runs atomically,  *)
(* and every await of a built-in variant is an `await update(...)`.  A     *)
(* variant's execution is therefore a sequence of segments, each ending in *)
(* an emit, in the variant's return or in a throw.  The operators of the   *)
(* first part compute, loop by loop as the source does, the record         *)
(*     [arr, stats, ev, out, msg]                                          *)
(* of a variant's execution: the array and counters it leaves, the events  *)
(* it emitted (ev) and how it ended (out).  The driver of the second part  *)
(* replays the events one segment per step, interleaved with the host.     *)
(*                                                                         *)
(* Array indices are the source's (0-based); At and Put translate them.    *)
(***************************************************************************)
EXTENDS Integers, Sequences, FiniteSets, TLC

\* ------------------------------------------------------------------ bounds
MaxLen == 3
MaxVal == 1
SmallLen == 2
MaxShuffles == 2
MaxTime == 3
TwoDigits == 12
BattleSize == 4

\* ------------------------------------------------------- values and arrays
\* JavaScript's `undefined` as an array element (radix sort reads holes of
\* `output` on inputs it was not made for); no input holds it.
undefined == 0 - 99

\* Numbers an array may hold: negative, zero, one digit, two digits.
Values == ((0 - 1) .. MaxVal) \cup {TwoDigits}

RECURSIVE SeqsUpTo(_, _)
SeqsUpTo(S, n) ==
    IF n = 0 THEN {<<>>}
    ELSE LET shorter == SeqsUpTo(S, n - 1)
         IN  shorter \cup {Append(s, v) : s \in {t \in shorter : Len(t) = n - 1}, v \in S}

At(arr, i) == arr[i + 1]
Put(arr, i, v) == [arr EXCEPT ![i + 1] = v]
\* An exchange that loses arr[i]: arr[i] = arr[j]; arr[j] = arr[i].
ExchangeOverwrites(arr, i, j) == [arr EXCEPT ![i + 1] = arr[j + 1]]

\* [arr[i], arr[j]] = [arr[j], arr[i]]
Exchange(arr, i, j) == [arr EXCEPT ![i + 1] = arr[j + 1], ![j + 1] = arr[i + 1]]

ZeroStats == [comparisons |-> 0, swaps |-> 0, time |-> 0, writes |-> 0]
StatFields == {"comparisons", "swaps", "time", "writes"}

\* A merge that adds the fields of statUpdate to the counters.
ObjectAdd(stats, statUpdate) ==
    [f \in StatFields |-> IF f \in DOMAIN statUpdate THEN stats[f] + statUpdate[f] ELSE stats[f]]

\* Object.assign(stats, statUpdate): the fields present in statUpdate overwrite.
ObjectAssign(stats, statUpdate) ==
    [f \in StatFields |-> IF f \in DOMAIN statUpdate THEN statUpdate[f] ELSE stats[f]]

NoHighlights == [comparing |-> <<>>, swapping |-> <<>>]
Comparing(idx) == [comparing |-> idx, swapping |-> <<>>]
Swapping(idx) == [comparing |-> <<>>, swapping |-> idx]

\* ------------------------------------------------- a variant's execution
\* The state of a variant run at the start: the working array, the counters
\* object, no event emitted, still running.
Begin(arr, stats) == [arr |-> arr, stats |-> stats, ev |-> <<>>, out |-> "running", msg |-> <<>>]

\* The synchronous part of `update` (the merge of the delta and the snapshot
\* handed to the callback); the awaits that follow are the driver's steps.
update(r, highlights, statUpdate) ==
    LET merged == ObjectAssign(r.stats, statUpdate)
    IN  [r EXCEPT !.stats = merged,
                  !.ev = Append(@, [arr |-> r.arr, stats |-> merged,
                                    highlights |-> highlights, statUpdate |-> statUpdate])]

\* A comparison counted twice.
ComparedTwice(r) == [r EXCEPT !.stats.comparisons = @ + 2]
Compared(r) == [r EXCEPT !.stats.comparisons = @ + 1]
\* An exchange counted as one write.
SwappedOneWrite(r, i, j) ==
    [r EXCEPT !.stats.swaps = @ + 1, !.stats.writes = @ + 1, !.arr = Exchange(@, i, j)]
\* stats.swaps++; stats.writes += 2; [arr[i], arr[j]] = [arr[j], arr[i]]
Swapped(r, i, j) ==
    [r EXCEPT !.stats.swaps = @ + 1, !.stats.writes = @ + 2, !.arr = Exchange(@, i, j)]
\* stats.swaps++; stats.writes++; arr[k] = v   (a shift or a move)
Moved(r, k, v) ==
    [r EXCEPT !.stats.swaps = @ + 1, !.stats.writes = @ + 1, !.arr = Put(@, k, v)]
Returned(r) == [r EXCEPT !.out = "return"]
\* throw new Error(msg) / throw of a value that is no Error
ThrewError(r, msg) == [r EXCEPT !.out = "throwError", !.msg = msg]
ThrewValue(r) == [r EXCEPT !.out = "throwValue"]

\* ------------------------------------------------------------ bubble sort
RECURSIVE BubbleFor(_, _, _, _)
BubbleFor(r, n, i, swapped) ==
    IF i < n - 1
    THEN LET r1 == update(Compared(r), Comparing(<<i, i + 1>>), <<>>)
         IN  IF At(r1.arr, i) > At(r1.arr, i + 1)
             THEN BubbleFor(update(Swapped(r1, i, i + 1), Swapping(<<i, i + 1>>), <<>>),
                            n, i + 1, TRUE)
             ELSE BubbleFor(r1, n, i + 1, swapped)
    ELSE [r |-> r, swapped |-> swapped]

\* Passes that all run over the whole array.
RECURSIVE BubbleDoWholeArray(_, _)
BubbleDoWholeArray(r, n) ==
    LET pass == BubbleFor(r, n, 0, FALSE)
    IN  IF pass.swapped THEN BubbleDoWholeArray(pass.r, n) ELSE pass.r

RECURSIVE BubbleDo(_, _)
BubbleDo(r, n) ==
    LET pass == BubbleFor(r, n, 0, FALSE)
    IN  IF pass.swapped THEN BubbleDo(pass.r, n - 1) ELSE pass.r

bubbleSortFunc(r) == BubbleDo(r, Len(r.arr))

\* --------------------------------------------------------- selection sort
RECURSIVE SelectionInner(_, _, _, _)
SelectionInner(r, n, j, minIdx) ==
    IF j < n
    THEN LET r1 == update(Compared(r), Comparing(<<minIdx, j>>), <<>>)
         IN  SelectionInner(r1, n, j + 1,
                            IF At(r1.arr, j) < At(r1.arr, minIdx) THEN j ELSE minIdx)
    ELSE [r |-> r, minIdx |-> minIdx]

RECURSIVE SelectionOuter(_, _, _)
SelectionOuter(r, n, i) ==
    IF i < n - 1
    THEN LET inner == SelectionInner(r, n, i + 1, i)
         IN  IF inner.minIdx # i
             THEN SelectionOuter(update(Swapped(inner.r, i, inner.minIdx),
                                        Swapping(<<i, inner.minIdx>>), <<>>), n, i + 1)
             ELSE SelectionOuter(inner.r, n, i + 1)
    ELSE r

selectionSortFunc(r) == SelectionOuter(r, Len(r.arr), 0)

\* --------------------------------------------------------- insertion sort
\* A while loop that also shifts the elements equal to `current`.
RECURSIVE InsertionWhileShiftsEquals(_, _, _)
InsertionWhileShiftsEquals(r, j, current) ==
    IF j >= 0 /\ At(r.arr, j) >= current
    THEN InsertionWhileShiftsEquals(update(Moved(Compared(r), j + 1, At(r.arr, j)),
                                           Swapping(<<j, j + 1>>), <<>>), j - 1, current)
    ELSE [r |-> r, j |-> j]

RECURSIVE InsertionWhile(_, _, _)
InsertionWhile(r, j, current) ==
    IF j >= 0 /\ At(r.arr, j) > current
    THEN InsertionWhile(update(Moved(Compared(r), j + 1, At(r.arr, j)),
                               Swapping(<<j, j + 1>>), <<>>), j - 1, current)
    ELSE [r |-> r, j |-> j]

RECURSIVE InsertionFor(_, _, _)
InsertionFor(r, n, i) ==
    IF i < n
    THEN LET current == At(r.arr, i)
             w == InsertionWhile(update(r, Comparing(<<i>>), <<>>), i - 1, current)
             r1 == IF w.j >= 0 THEN Compared(w.r) ELSE w.r
         IN  InsertionFor([r1 EXCEPT !.stats.writes = @ + 1,
                                     !.arr = Put(@, w.j + 1, current)], n, i + 1)
    ELSE r

insertionSortFunc(r) == InsertionFor(r, Len(r.arr), 1)

\* ------------------------------------------------------------- quick sort
\* A partition loop that leaves out the exchange of an index with itself.
RECURSIVE PartitionForSkipsSelf(_, _, _, _, _)
PartitionForSkipsSelf(r, high, pivot, i, j) ==
    IF j < high
    THEN LET r1 == update(Compared(r), Comparing(<<j, high>>), <<>>)
         IN  IF At(r1.arr, j) < pivot
             THEN PartitionForSkipsSelf(IF i + 1 = j THEN r1
                                        ELSE update(Swapped(r1, i + 1, j),
                                                    Swapping(<<i + 1, j>>), <<>>),
                                        high, pivot, i + 1, j + 1)
             ELSE PartitionForSkipsSelf(r1, high, pivot, i, j + 1)
    ELSE [r |-> r, i |-> i]

RECURSIVE PartitionFor(_, _, _, _, _)
PartitionFor(r, high, pivot, i, j) ==
    IF j < high
    THEN LET r1 == update(Compared(r), Comparing(<<j, high>>), <<>>)
         IN  IF At(r1.arr, j) < pivot
             THEN PartitionFor(update(Swapped(r1, i + 1, j), Swapping(<<i + 1, j>>), <<>>),
                               high, pivot, i + 1, j + 1)
             ELSE PartitionFor(r1, high, pivot, i, j + 1)
    ELSE [r |-> r, i |-> i]

partition(r, low, high) ==
    LET loop == PartitionFor(r, high, At(r.arr, high), low - 1, low)
    IN  [r |-> update(Swapped(loop.r, loop.i + 1, high), Swapping(<<loop.i + 1, high>>), <<>>),
         pi |-> loop.i + 1]

RECURSIVE QuickSort(_, _, _)
QuickSort(r, low, high) ==
    IF low < high
    THEN LET p == partition(r, low, high)
         IN  QuickSort(QuickSort(p.r, low, p.pi - 1), p.pi + 1, high)
    ELSE r

quickSortFunc(r) == QuickSort(r, 0, Len(r.arr) - 1)

\* ------------------------------------------------------------- merge sort
\* The three while loops of merge; L and R are the copies taken of the two
\* halves, i and j the source's indices into them, k the output index.
RECURSIVE MergeBoth(_, _, _, _, _, _)
MergeBoth(r, L, R, i, j, k) ==
    IF i < Len(L) /\ j < Len(R)
    THEN LET r1 == Compared(r)
         IN  IF At(L, i) <= At(R, j)
             THEN MergeBoth(update(Moved(r1, k, At(L, i)), Comparing(<<k>>), <<>>),
                            L, R, i + 1, j, k + 1)
             ELSE MergeBoth(update(Moved(r1, k, At(R, j)), Comparing(<<k>>), <<>>),
                            L, R, i, j + 1, k + 1)
    ELSE [r |-> r, i |-> i, j |-> j, k |-> k]

\* A drain loop that counts a comparison for each element it copies.
RECURSIVE MergeDrainCompares(_, _, _, _)
MergeDrainCompares(r, H, i, k) ==
    IF i < Len(H)
    THEN MergeDrainCompares(update(Moved(Compared(r), k, At(H, i)), Comparing(<<k>>), <<>>),
                            H, i + 1, k + 1)
    ELSE [r |-> r, k |-> k]

RECURSIVE MergeDrain(_, _, _, _)
MergeDrain(r, H, i, k) ==
    IF i < Len(H)
    THEN MergeDrain(update(Moved(r, k, At(H, i)), Comparing(<<k>>), <<>>), H, i + 1, k + 1)
    ELSE [r |-> r, k |-> k]

merge(r, l, m, r_) ==
    LET L == SubSeq(r.arr, l + 1, m + 1)
        R == SubSeq(r.arr, m + 2, r_ + 1)
        both == MergeBoth(r, L, R, 0, 0, l)
        left == MergeDrain(both.r, L, both.i, both.k)
    IN  MergeDrain(left.r, R, both.j, left.k).r

RECURSIVE MergeSort(_, _, _)
MergeSort(r, l, r_) ==
    IF l >= r_ THEN r
    ELSE LET m == l + ((r_ - l) \div 2)
         IN  merge(MergeSort(MergeSort(r, l, m), m + 1, r_), l, m, r_)

mergeSortFunc(r) == MergeSort(r, 0, Len(r.arr) - 1)

\* -------------------------------------------------------------- heap sort
HeapChild(r, size, c, largest) ==
    IF c < size
    THEN LET r1 == update(Compared(r), Comparing(<<c, largest>>), <<>>)
         IN  [r |-> r1, largest |-> IF At(r1.arr, c) > At(r1.arr, largest) THEN c ELSE largest]
    ELSE [r |-> r, largest |-> largest]

RECURSIVE heapify(_, _, _)
heapify(r, size, i) ==
    LET left == HeapChild(r, size, 2 * i + 1, i)
        right == HeapChild(left.r, size, 2 * i + 2, left.largest)
    IN  IF right.largest # i
        THEN heapify(update(Swapped(right.r, i, right.largest),
                            Swapping(<<i, right.largest>>), <<>>), size, right.largest)
        ELSE right.r

RECURSIVE HeapBuild(_, _, _)
HeapBuild(r, n, i) == IF i >= 0 THEN HeapBuild(heapify(r, n, i), n, i - 1) ELSE r

RECURSIVE HeapExtract(_, _)
HeapExtract(r, i) ==
    IF i > 0
    THEN HeapExtract(heapify(update(Swapped(r, 0, i), Swapping(<<0, i>>), <<>>), i, 0), i - 1)
    ELSE r

heapSortFunc(r) ==
    LET n == Len(r.arr)
    IN  HeapExtract(HeapBuild(r, n, (n \div 2) - 1), n - 1)

\* ------------------------------------------------------------- radix sort
\* An index that names no cell of `count` (a negative number or NaN).
NoDigit == 0 - 1

\* Math.floor(v / exp) % 10, JavaScript's remainder taking the sign of the
\* dividend; -0 indexes cell 0, a negative remainder or NaN indexes no cell.
Digit(v, exp) ==
    IF v = undefined THEN NoDigit
    ELSE LET q == v \div exp
         IN  IF q >= 0 THEN q % 10
             ELSE IF (0 - q) % 10 = 0 THEN 0 ELSE NoDigit

RECURSIVE getMaxFrom(_, _, _)
getMaxFrom(arr, i, max) ==
    IF i < Len(arr)
    THEN getMaxFrom(arr, i + 1, IF At(arr, i) > max THEN At(arr, i) ELSE max)
    ELSE max

getMax(arr) == IF Len(arr) = 0 THEN undefined ELSE getMaxFrom(arr, 1, At(arr, 0))

\* count[digit]++ over the array; a digit that names no cell changes none.
RECURSIVE CountDigits(_, _, _, _)
CountDigits(arr, exp, i, count) ==
    IF i < Len(arr)
    THEN LET d == Digit(At(arr, i), exp)
         IN  CountDigits(arr, exp, i + 1,
                         IF d = NoDigit THEN count ELSE [count EXCEPT ![d] = @ + 1])
    ELSE count

RECURSIVE Accumulate(_, _)
Accumulate(count, i) ==
    IF i < 10 THEN Accumulate([count EXCEPT ![i] = @ + count[i - 1]], i + 1) ELSE count

\* output[count[digit] - 1] = arr[i]; count[digit]--, from the last index down.
RECURSIVE Place(_, _, _, _, _)
Place(arr, exp, i, count, output) ==
    IF i >= 0
    THEN LET d == Digit(At(arr, i), exp)
         IN  IF d = NoDigit THEN Place(arr, exp, i - 1, count, output)
             ELSE Place(arr, exp, i - 1, [count EXCEPT ![d] = @ - 1],
                        Put(output, count[d] - 1, At(arr, i)))
    ELSE output

RECURSIVE CopyBack(_, _, _)
CopyBack(r, output, i) ==
    IF i < Len(r.arr)
    THEN CopyBack(update(Moved(r, i, At(output, i)), Swapping(<<i>>), <<>>), output, i + 1)
    ELSE r

countingSort(r, exp) ==
    LET count == Accumulate(CountDigits(r.arr, exp, 0, [d \in 0 .. 9 |-> 0]), 1)
        output == Place(r.arr, exp, Len(r.arr) - 1, count, [i \in 1 .. Len(r.arr) |-> undefined])
    IN  CopyBack(r, output, 0)

\* Passes that stop one digit early.
RECURSIVE RadixForOneLess(_, _, _)
RadixForOneLess(r, max, exp) ==
    IF max # undefined /\ max \div exp >= 10
    THEN RadixForOneLess(countingSort(r, exp), max, exp * 10)
    ELSE r

RECURSIVE RadixFor(_, _, _)
RadixFor(r, max, exp) ==
    IF max # undefined /\ max \div exp > 0
    THEN RadixFor(countingSort(r, exp), max, exp * 10)
    ELSE r

radixSortFunc(r) == RadixFor(r, getMax(r.arr), 1)

\* ------------------------------------------------------------ bucket sort
RECURSIVE FloorSqrtFrom(_, _)
FloorSqrtFrom(n, k) == IF (k + 1) * (k + 1) > n THEN k ELSE FloorSqrtFrom(n, k + 1)
\* Math.floor(Math.sqrt(n))
FloorSqrt(n) == FloorSqrtFrom(n, 0)

\* Math.max(...arr) || 1, for a non-empty array of numbers
MaxOr1(arr) == LET m == getMaxFrom(arr, 1, At(arr, 0)) IN IF m = 0 THEN 1 ELSE m

\* A bucket index that divides by max instead of max + 1.
BucketIndexByMax(v, max, bucketCount) ==
    LET idx == IF max > 0 THEN (v * bucketCount) \div max ELSE NoDigit
    IN  IF idx >= 0 /\ idx < bucketCount THEN idx ELSE NoDigit

\* Math.floor((v / (max + 1)) * bucketCount) when it names a bucket, NoDigit
\* when buckets[bucketIndex] is undefined (a negative, too large or infinite
\* index).  The quotient is taken exactly.
BucketIndex(v, max, bucketCount) ==
    LET idx == IF max + 1 > 0 THEN (v * bucketCount) \div (max + 1)
               ELSE IF max + 1 < 0 THEN ((0 - v) * bucketCount) \div (0 - (max + 1))
               ELSE NoDigit
    IN  IF idx >= 0 /\ idx < bucketCount THEN idx ELSE NoDigit

\* buckets[bucketIndex].push(arr[i]); stats.swaps++, until a push on undefined throws.
RECURSIVE Distribute(_, _, _, _, _)
Distribute(r, max, bucketCount, i, buckets) ==
    IF i < Len(r.arr)
    THEN LET b == BucketIndex(At(r.arr, i), max, bucketCount)
         IN  IF b = NoDigit
             THEN [r |-> ThrewError(r, <<"Cannot read properties of undefined (reading 'push')">>),
                   buckets |-> buckets]
             ELSE Distribute([r EXCEPT !.stats.swaps = @ + 1], max, bucketCount, i + 1,
                             [buckets EXCEPT ![b] = Append(@, At(r.arr, i))])
    ELSE [r |-> r, buckets |-> buckets]

\* The uninstrumented insertion sort of one bucket.
RECURSIVE BucketShift(_, _, _)
BucketShift(bucket, k, current) ==
    IF k >= 0 /\ At(bucket, k) > current
    THEN BucketShift(Put(bucket, k + 1, At(bucket, k)), k - 1, current)
    ELSE Put(bucket, k + 1, current)

RECURSIVE BucketInsertion(_, _)
BucketInsertion(bucket, j) ==
    IF j < Len(bucket)
    THEN BucketInsertion(BucketShift(bucket, j - 1, At(bucket, j)), j + 1)
    ELSE bucket

\* A copy-back loop that highlights the index after its increment.
RECURSIVE CollectHighlightsNext(_, _, _, _, _)
CollectHighlightsNext(r, buckets, i, j, index) ==
    IF i >= Len(buckets) THEN r
    ELSE IF j >= Len(At(buckets, i)) THEN CollectHighlightsNext(r, buckets, i + 1, 0, index)
    ELSE CollectHighlightsNext(update([r EXCEPT !.arr = Put(@, index, At(At(buckets, i), j)),
                                                !.stats.writes = @ + 1],
                                      Swapping(<<index + 1>>), <<>>),
                               buckets, i, j + 1, index + 1)

\* arr[index++] = buckets[i][j]; stats.writes++; await update({swapping: [index - 1]})
RECURSIVE Collect(_, _, _, _, _)
Collect(r, buckets, i, j, index) ==
    IF i >= Len(buckets) THEN r
    ELSE IF j >= Len(At(buckets, i)) THEN Collect(r, buckets, i + 1, 0, index)
    ELSE Collect(update([r EXCEPT !.arr = Put(@, index, At(At(buckets, i), j)),
                                  !.stats.writes = @ + 1],
                        Swapping(<<index>>), <<>>),
                 buckets, i, j + 1, index + 1)

bucketSortFunc(r) ==
    LET n == Len(r.arr)
    IN  IF n <= 0 THEN r
        ELSE LET bucketCount == FloorSqrt(n)
                 dist == Distribute(r, MaxOr1(r.arr), bucketCount, 0,
                                    [b \in 0 .. bucketCount - 1 |-> <<>>])
                 sorted == [b \in 1 .. bucketCount |-> BucketInsertion(dist.buckets[b - 1], 1)]
             IN  IF dist.r.out = "throwError" THEN dist.r
                 ELSE Collect(dist.r, sorted, 0, 0, 0)

\* -------------------------------------------------------------- bogo sort
\* isSorted(): one comparison per adjacent pair up to the first inversion.
RECURSIVE IsSortedFrom(_, _)
IsSortedFrom(r, i) ==
    IF i < Len(r.arr) - 1
    THEN LET r1 == Compared(r)
         IN  IF At(r1.arr, i) > At(r1.arr, i + 1) THEN [r |-> r1, sorted |-> FALSE]
             ELSE IsSortedFrom(r1, i + 1)
    ELSE [r |-> r, sorted |-> TRUE]

\* A check that stops at the first pair.
isSortedFirstPair(r) ==
    IF Len(r.arr) < 2 THEN [r |-> r, sorted |-> TRUE]
    ELSE [r |-> Compared(r), sorted |-> At(r.arr, 0) <= At(r.arr, 1)]

isSorted(r) == IsSortedFrom(r, 0)

\* The values Math.floor(Math.random() * (i + 1)) can take, for every i of a
\* shuffle pass: rnd[i] \in 0 .. i.
RandomChoices(n) ==
    {rnd \in [1 .. n - 1 -> 0 .. n - 1] : \A i \in 1 .. n - 1 : rnd[i] <= i}

RECURSIVE ShuffleFrom(_, _, _)
ShuffleFrom(r, rnd, i) ==
    IF i > 0 THEN ShuffleFrom(Swapped(r, i, rnd[i]), rnd, i - 1) ELSE r

shuffle(r, rnd) == update(ShuffleFrom(r, rnd, Len(r.arr) - 1), NoHighlights, <<>>)

\* One segment of `while (!isSorted()) await shuffle()`: the variant returns,
\* or it shuffles and emits.  The number of shuffle passes explored is capped.
BogoSegments(r) ==
    LET chk == isSorted(r)
        n == Len(r.arr)
    IN  IF chk.sorted THEN {Returned(chk.r)}
        ELSE IF chk.r.stats.swaps >= MaxShuffles * (n - 1) THEN {}
        ELSE {shuffle(chk.r, rnd) : rnd \in RandomChoices(n)}

\* ------------------------------------------------------------- user code
\* Source texts a user can submit, each standing for its class of texts.
EmptyText == ""
BlankText == " "
SyntaxErrorText == "async function userSort(arr, update, stats) {"
NotCallableText == "42"
EvalThrowsValueText == "(() => { throw 'early' })()"
NoOpText == "async function userSort(arr, update, stats) {}"
ThrowsErrorText == "async function userSort(arr, update, stats) { throw new Error('boom') }"
ThrowsValueText == "async function userSort(arr, update, stats) { throw 'boom' }"
MutateThenThrowText ==
    "async function userSort(arr, update, stats) { arr.reverse(); stats.writes++; await update({swapping: [0]}); stats.comparisons++; throw new Error('boom') }"
\* A function that hands counter values to update, the second ones smaller.
OverwriteText ==
    "async function userSort(arr, update, stats) { await update({}, { swaps: 1, writes: 2 }); await update({}, { swaps: 1, writes: 1 }) }"
\* The text the editor starts with: a comment of several lines, then the
\* function.  After 'return ' the comment, holding line breaks, counts as a
\* line break, so the return statement ends there and yields undefined.
DEFAULT_USER_CODE ==
    "/** ... (9 lines) */ async function userSort(arr, update, stats) { bubble sort; await update({}) }"
\* The same text from `async function userSort` on.
UserSortText == "async function userSort(arr, update, stats) { bubble sort; await update({}) }"

UserTexts == {EmptyText, BlankText, SyntaxErrorText, NotCallableText, EvalThrowsValueText,
              NoOpText, ThrowsErrorText, ThrowsValueText, MutateThenThrowText,
              OverwriteText, DEFAULT_USER_CODE, UserSortText}

Reverse(arr) == [i \in 1 .. Len(arr) |-> arr[Len(arr) + 1 - i]]

\* new Function('return ' + userCode)(): what evaluating the text does.
\*   threw = "Error"  the evaluation throws an Error (a SyntaxError) with message
\*   threw = "value"  the evaluation throws a value that is no Error
\*   threw = "no"     it yields a value, callable or not
Evaluate(userCode) ==
    CASE userCode = SyntaxErrorText ->
            [threw |-> "Error", message |-> "Unexpected end of input", callable |-> FALSE]
      [] userCode = EvalThrowsValueText ->
            [threw |-> "value", message |-> "", callable |-> FALSE]
      [] userCode \in {EmptyText, BlankText, NotCallableText, DEFAULT_USER_CODE} ->
            [threw |-> "no", message |-> "", callable |-> FALSE]
      [] OTHER -> [threw |-> "no", message |-> "", callable |-> TRUE]

\* The body of the function the text evaluates to, run on (arr, update, stats).
userSortFunction(userCode, r) ==
    CASE userCode = NoOpText -> Returned(r)
      [] userCode = ThrowsErrorText -> ThrewError(r, <<"boom">>)
      [] userCode = ThrowsValueText -> ThrewValue(r)
      [] userCode = MutateThenThrowText ->
            LET r1 == [r EXCEPT !.arr = Reverse(@), !.stats.writes = @ + 1]
                r2 == update(r1, Swapping(<<0>>), <<>>)
            IN  ThrewError(Compared(r2), <<"boom">>)
      [] userCode = OverwriteText ->
            LET r1 == update(r, NoHighlights, [swaps |-> 1, writes |-> 2])
            IN  Returned(update(r1, NoHighlights, [swaps |-> 1, writes |-> 1]))
      [] OTHER -> Returned(update(bubbleSortFunc(r), NoHighlights, <<>>))

NotAFunctionMessage ==
    "Provided code does not evaluate to a function. Make sure 'async function userSort...' is defined."

\* Step 1 of userCodeFunc: the text is compiled; the catch turns an Error
\* into `Compilation Error: ` + its message and anything else into a fixed
\* message.  "ok" when the text yields a function.
Compile(userCode) ==
    LET v == Evaluate(userCode)
    IN  IF v.threw = "Error" THEN <<"Compilation Error: ", v.message>>
        ELSE IF v.threw = "value" THEN <<"An unknown compilation error occurred.">>
        ELSE IF ~v.callable THEN <<"Compilation Error: ", NotAFunctionMessage>>
        ELSE <<>>

\* A catch that prefixes whatever was thrown.
RuntimeCatchPrefixesAll(x, hasLocation) ==
    IF x.out \in {"throwError", "throwValue"}
    THEN ThrewError(x, <<"Runtime Error: ">> \o x.msg)
    ELSE x

\* Step 2 of userCodeFunc: the catch around the call.  hasLocation tells
\* whether the Error's stack holds `<anonymous>:L:C` (it depends on the
\* engine).
RuntimeCatch(x, hasLocation) ==
    IF x.out = "throwError"
    THEN ThrewError(x, <<"Runtime Error: ">> \o x.msg
                         \o (IF hasLocation THEN <<" (at line L, column C)">> ELSE <<>>))
    ELSE IF x.out = "throwValue"
    THEN ThrewError(x, <<"An unknown runtime error occurred.">>)
    ELSE x

\* A loader that counts before it compiles.
userCodeFuncCountsFirst(userCode, r, hasLocation) ==
    IF Compile(userCode) # <<>>
    THEN ThrewError([r EXCEPT !.stats.comparisons = @ + 1], Compile(userCode))
    ELSE RuntimeCatch(userSortFunction(userCode, r), hasLocation)

userCodeFunc(userCode, r, hasLocation) ==
    IF Compile(userCode) # <<>> THEN ThrewError(r, Compile(userCode))
    ELSE RuntimeCatch(userSortFunction(userCode, r), hasLocation)

\* ------------------------------------------------------ the key switch
BuiltinKeys == {"bubbleSort", "selectionSort", "insertionSort", "quickSort", "mergeSort",
                "heapSort", "radixSort", "bucketSort", "bogoSort"}
AlgorithmKeys == BuiltinKeys \cup {"userCode"}

\* A built-in async function that ran to its end resolves.
Resolved(x) == IF x.out = "running" THEN Returned(x) ELSE x

\* The continuation of bogo sort holds no script: its segments are drawn as
\* it runs (BogoSegments).
Live == Begin(<<>>, ZeroStats)

\* The executions sortFunc can have on the working array `arr` with fresh
\* counters: one for a deterministic variant, one per engine for user code.
Executions(key, userCode, arr) ==
    LET r == Begin(arr, ZeroStats)
    IN  CASE key = "bubbleSort" -> {Resolved(bubbleSortFunc(r))}
          [] key = "selectionSort" -> {Resolved(selectionSortFunc(r))}
          [] key = "insertionSort" -> {Resolved(insertionSortFunc(r))}
          [] key = "quickSort" -> {Resolved(quickSortFunc(r))}
          [] key = "mergeSort" -> {Resolved(mergeSortFunc(r))}
          [] key = "heapSort" -> {Resolved(heapSortFunc(r))}
          [] key = "radixSort" -> {Resolved(radixSortFunc(r))}
          [] key = "bucketSort" -> {Resolved(bucketSortFunc(r))}
          [] key = "bogoSort" -> {Live}
          [] key = "userCode" -> {userCodeFunc(userCode, r, loc) : loc \in BOOLEAN}

\* A key switch that accepts the empty text.
RunnerNeverThrows(key, userCode) == FALSE

\* getAlgorithmRunner's own throw: `if (!userCode) throw new Error(...)`.
RunnerThrows(key, userCode) == key = "userCode" /\ userCode = EmptyText

\* ===================================================================== state
Arenas == {1, 2}

VARIABLES
    heap,        \* the array objects: "initialArray" (the caller's) and each run's `arr`
    isPaused,    \* App's isPaused state
    delay,       \* config.delay
    now,         \* performance.now(), in ticks
    props,       \* per arena: algorithmKey, userCode, isRunning
    run,         \* per arena: the closure of one run of the driver
    host,        \* per arena: the state of useArenaState
    obs,         \* per arena: what was observed of the run (history)
    results,     \* BattleScreen's resultsRef.current
    battles      \* how often onBattleComplete was invoked, and with how many results

vars == <<heap, isPaused, delay, now, props, run, host, obs, results, battles>>

\* Runs that write one and the same working array.
SharedWorkArray(a) == "arr1"

WorkArray(a) == IF a = 1 THEN "arr1" ELSE "arr2"

\* A run that sorts the array it was given, in place.
SameArrayObject(a) == "initialArray"

\* const arr = [...initialArray]: a new object for arena a with the contents.
CopyOfInitialArray(a) == WorkArray(a)

NoResult == [kind |-> "pending", stats |-> ZeroStats]

IdleRun == [pc |-> "idle", arr |-> "none", stats |-> ZeroStats, pausedTime |-> 0,
            pauseStartTime |-> 0, startTime |-> 0, cont |-> Live, result |-> NoResult]

NoCall == [arr |-> <<>>, obj |-> "none", highlights |-> NoHighlights, stats |-> ZeroStats,
           errorMessage |-> <<>>]

\* History kept for the properties: the callback invocations made (calls),
\* those of them made by an emit (emits) and after cancellation
\* (cancelledCalls), the last invocation's arguments, the input's contents
\* at the start, the time of the terminal callback, and the ticks that passed
\* during the run's emits with the pause predicate true (pausedTicks) and
\* inside the pause wait (blockedTicks).
NoObs == [calls |-> 0, emits |-> 0, cancelledCalls |-> 0, last |-> NoCall, input |-> <<>>,
          endTime |-> 0, pausedTicks |-> 0, blockedTicks |-> 0,
          passed |-> [swaps |-> 0, writes |-> 0], startDelay |-> 0, callsPaused |-> 0]

\* useArenaState's initial state for the given initial array.
MountedHost(initial) ==
    [isCancelled |-> FALSE, isPausedRef |-> FALSE, delayRef |-> 0, array |-> initial,
     highlights |-> NoHighlights, stats |-> ZeroStats, isSorted |-> FALSE, error |-> <<>>]

InProgress(pc) == pc \in {"callback", "pauseSleep", "delaySleep", "finalCallback", "failCallback"}
EmitOutstanding(pc) == pc \in {"callback", "pauseSleep", "delaySleep"}
Terminal(pc) == pc \in {"completed", "failed", "fatal"}

\* ------------------------------------------------------ the host's callback
\* updateCallback of useArenaState: nothing once cancelled; otherwise the
\* arguments become the arena's state, the message without its `Error: `.
StripErrorPrefix(errorMessage) ==
    IF errorMessage # <<>> /\ Head(errorMessage) = "Error: " THEN Tail(errorMessage)
    ELSE errorMessage

\* A callback that does not look at isCancelled.
updateCallbackUnguarded(h, args) ==
    [h EXCEPT !.array = args.arr, !.highlights = args.highlights, !.stats = args.stats,
              !.error = IF args.errorMessage # <<>> THEN StripErrorPrefix(args.errorMessage)
                        ELSE @]

updateCallback(h, args) ==
    IF h.isCancelled THEN h
    ELSE [h EXCEPT !.array = args.arr, !.highlights = args.highlights, !.stats = args.stats,
                   !.error = IF args.errorMessage # <<>> THEN StripErrorPrefix(args.errorMessage)
                             ELSE @]

Observed(o, h, args, isEmit) ==
    [o EXCEPT !.calls = @ + 1, !.last = args,
              !.cancelledCalls = IF h.isCancelled THEN @ + 1 ELSE @,
              !.emits = IF isEmit THEN @ + 1 ELSE @,
              !.endTime = IF isEmit THEN @ ELSE now,
              !.callsPaused = IF h.isPausedRef THEN @ + 1 ELSE 0]

\* The sums of the swaps and writes values handed to update so far.
SumPassed(sum, statUpdate) ==
    [f \in {"swaps", "writes"} |->
        IF f \in DOMAIN statUpdate THEN sum[f] + statUpdate[f] ELSE sum[f]]

\* handleArenaFinish: push, and with the second result onBattleComplete.
ZeroResult(a) == [arena |-> a, time |-> 0, comparisons |-> 0, swaps |-> 0, writes |-> 0]
StatsResult(a, s) == [arena |-> a, time |-> s.time, comparisons |-> s.comparisons,
                      swaps |-> s.swaps, writes |-> s.writes]

\* A handleArenaFinish that completes the battle at every result.
onFinishEveryPush(res) ==
    /\ results' = Append(results, res)
    /\ battles' = Append(battles, Len(results) + 1)

onFinish(res) ==
    /\ results' = Append(results, res)
    /\ battles' = IF Len(results) + 1 = 2 THEN Append(battles, Len(results) + 1) ELSE battles

\* ------------------------------------------------------------ the driver
\* The segments the variant of run r can run next on an array of `contents`.
Segments(r, contents) ==
    IF r.cont.out = "running" THEN BogoSegments(Begin(contents, r.stats)) ELSE {r.cont}

\* A time that leaves the pauses in.
ElapsedWallClock(r) == now - r.startTime

\* The time the driver reports: performance.now() - startTime - pausedTime.
ElapsedTime(r) == now - r.startTime - r.pausedTime

\* A driver whose final callback hands over the array it was given.
CallbackArgsFinalInput(r, s, hp) ==
    IF s.ev # <<>>
    THEN [arr |-> Head(s.ev).arr, obj |-> "copy", highlights |-> Head(s.ev).highlights,
          stats |-> Head(s.ev).stats, errorMessage |-> <<>>]
    ELSE [arr |-> hp["initialArray"], obj |-> "initialArray", highlights |-> NoHighlights,
          stats |-> [s.stats EXCEPT !.time = ElapsedTime(r)],
          errorMessage |-> IF s.out = "return" THEN <<>>
                           ELSE IF s.out = "throwError" THEN <<"Error: ">> \o s.msg
                           ELSE <<"An unknown error occurred.">>]

\* A driver whose catch branch hands over a copy of the working array.
CallbackArgsFailureWorking(r, s, hp) ==
    IF s.ev # <<>>
    THEN [arr |-> Head(s.ev).arr, obj |-> "copy", highlights |-> Head(s.ev).highlights,
          stats |-> Head(s.ev).stats, errorMessage |-> <<>>]
    ELSE [arr |-> s.arr, obj |-> "copy", highlights |-> NoHighlights,
          stats |-> [s.stats EXCEPT !.time = ElapsedTime(r)],
          errorMessage |-> IF s.out = "return" THEN <<>>
                           ELSE IF s.out = "throwError" THEN <<"Error: ">> \o s.msg
                           ELSE <<"An unknown error occurred.">>]

\* The arguments of the callback that ends segment s of run r: an emit's
\* (update), the final update's, or the catch branch's.
CallbackArgs(r, s, hp) ==
    IF s.ev # <<>>
    THEN [arr |-> Head(s.ev).arr, obj |-> "copy", highlights |-> Head(s.ev).highlights,
          stats |-> Head(s.ev).stats, errorMessage |-> <<>>]
    ELSE IF s.out = "return"
    THEN [arr |-> s.arr, obj |-> "copy", highlights |-> NoHighlights,
          stats |-> [s.stats EXCEPT !.time = ElapsedTime(r)], errorMessage |-> <<>>]
    ELSE [arr |-> hp["initialArray"], obj |-> "initialArray", highlights |-> NoHighlights,
          stats |-> [s.stats EXCEPT !.time = ElapsedTime(r)],
          errorMessage |-> IF s.out = "throwError" THEN <<"Error: ">> \o s.msg
                           ELSE <<"An unknown error occurred.">>]

\* Run r after segment s: the counters object, where the driver waits, and
\* what is left of the variant.
AfterSegment(r, s) ==
    IF s.ev # <<>>
    THEN [r EXCEPT !.pc = "callback", !.stats = Head(s.ev).stats,
                   !.cont = IF r.cont.out = "running" THEN Live ELSE [s EXCEPT !.ev = Tail(@)]]
    ELSE IF s.out = "return"
    THEN [r EXCEPT !.pc = "finalCallback", !.stats = [s.stats EXCEPT !.time = ElapsedTime(r)],
                   !.cont = Returned(Live)]
    ELSE [r EXCEPT !.pc = "failCallback", !.stats = s.stats, !.cont = Returned(Live)]

\* The variant of arena a runs on from run state r up to its next await (an
\* emit's callback), its return (the final callback) or its throw (the catch
\* branch's callback); h and o are the arena's host state and history.
RunVariant(a, r, hp, h, o) ==
    \E s \in Segments(r, hp[r.arr]) :
        LET written == IF s.ev # <<>> THEN Head(s.ev).arr ELSE s.arr
            hp2 == [hp EXCEPT ![r.arr] = written]
            args == CallbackArgs(r, s, hp2)
        IN  /\ heap' = hp2
            /\ run' = [run EXCEPT ![a] = AfterSegment(r, s)]
            /\ host' = [host EXCEPT ![a] = updateCallback(h, args)]
            /\ obs' = [obs EXCEPT ![a] =
                         [Observed(o, h, args, s.ev # <<>>) EXCEPT
                             !.passed = IF s.ev # <<>>
                                        THEN SumPassed(@, Head(s.ev).statUpdate) ELSE @]]

\* runSort of useArenaState up to its first await, with getAlgorithmRunner
\* and the start of the run closure.
Start(a) ==
    /\ props[a].isRunning
    /\ run[a].pc = "idle"
    /\ ~host[a].isCancelled
    /\ LET h == [host[a] EXCEPT !.array = heap["initialArray"], !.highlights = NoHighlights,
                                !.stats = ZeroStats, !.isSorted = FALSE, !.error = <<>>]
       IN  IF RunnerThrows(props[a].algorithmKey, props[a].userCode)
           THEN /\ run' = [run EXCEPT ![a].pc = "fatal",
                                      ![a].result = [kind |-> "thrown", stats |-> ZeroStats]]
                /\ host' = [host EXCEPT ![a] =
                              [h EXCEPT !.error = <<"Fatal error in ", "Your Algorithm", ": ",
                                  "User code must be provided for 'userCode' algorithm.">>]]
                /\ onFinish(ZeroResult(a))
                /\ UNCHANGED <<heap, obs>>
           ELSE /\ \E x \in Executions(props[a].algorithmKey, props[a].userCode,
                                       heap["initialArray"]) :
                      LET arr == CopyOfInitialArray(a)
                          r == [pc |-> "idle", arr |-> arr, stats |-> ZeroStats,
                                pausedTime |-> 0, pauseStartTime |-> 0, startTime |-> now,
                                cont |-> x, result |-> NoResult]
                          hp == [heap EXCEPT ![arr] = heap["initialArray"]]
                      IN  RunVariant(a, r, hp, h,
                                     [obs[a] EXCEPT !.input = heap["initialArray"],
                                                    !.startDelay = h.delayRef])
                /\ UNCHANGED <<results, battles>>
    /\ UNCHANGED <<isPaused, delay, now, props>>

\* An update that returns into the variant without the delay.
AfterPauseWithoutDelay(a, r) == RunVariant(a, r, heap, host[a], obs[a])

\* `const delay = getDelay(); if (delay > 0) await sleep(delay)` and, without
\* a delay, the return into the variant.
AfterPause(a, r) ==
    IF host[a].delayRef > 0
    THEN /\ run' = [run EXCEPT ![a] = [r EXCEPT !.pc = "delaySleep"]]
         /\ UNCHANGED <<heap, host, obs>>
    ELSE RunVariant(a, r, heap, host[a], obs[a])

\* An update that goes from the callback to the delay, asking for no pause.
CallbackDoneUnpaused(a) ==
    /\ run[a].pc = "callback"
    /\ AfterPause(a, run[a])
    /\ UNCHANGED <<isPaused, delay, now, props, results, battles>>

\* The await of updateCallback in `update` ends: the pause check.
CallbackDone(a) ==
    /\ run[a].pc = "callback"
    /\ IF host[a].isPausedRef
       THEN /\ run' = [run EXCEPT ![a].pc = "pauseSleep", ![a].pauseStartTime = now]
            /\ UNCHANGED <<heap, host, obs>>
       ELSE AfterPause(a, run[a])
    /\ UNCHANGED <<isPaused, delay, now, props, results, battles>>

\* A pause loop that loses the variant's next emit when it resumes.
PauseWakeSkipsAnEmit(a) ==
    /\ run[a].pc = "pauseSleep"
    /\ IF host[a].isPausedRef
       THEN UNCHANGED <<heap, run, host, obs>>
       ELSE AfterPause(a, [run[a] EXCEPT !.pausedTime = @ + (now - run[a].pauseStartTime),
                                          !.cont.ev = IF @ # <<>> THEN Tail(@) ELSE @])
    /\ UNCHANGED <<isPaused, delay, now, props, results, battles>>

\* A pause loop that is left at its first wake-up.
PauseWakeIgnoresFlag(a) ==
    /\ run[a].pc = "pauseSleep"
    /\ AfterPause(a, [run[a] EXCEPT !.pausedTime = @ + (now - run[a].pauseStartTime)])
    /\ UNCHANGED <<isPaused, delay, now, props, results, battles>>

\* A pause loop that sleeps on whatever the flag says.
PauseWakeSleepsOn(a) ==
    /\ run[a].pc = "pauseSleep"
    /\ UNCHANGED vars

\* A sleep(50) of the pause loop ends: still paused, it sleeps again;
\* otherwise the paused time is added and the delay follows.
PauseWake(a) ==
    /\ run[a].pc = "pauseSleep"
    /\ IF host[a].isPausedRef
       THEN UNCHANGED <<heap, run, host, obs>>
       ELSE AfterPause(a, [run[a] EXCEPT !.pausedTime = @ + (now - run[a].pauseStartTime)])
    /\ UNCHANGED <<isPaused, delay, now, props, results, battles>>

\* The sleep(delay) of `update` ends and the variant runs on.
DelayDone(a) ==
    /\ run[a].pc = "delaySleep"
    /\ RunVariant(a, run[a], heap, host[a], obs[a])
    /\ UNCHANGED <<isPaused, delay, now, props, results, battles>>

\* A runSort that reports the stats without looking at isCancelled.
FinalDoneReportsAnyway(a) ==
    /\ run[a].pc = "finalCallback"
    /\ run' = [run EXCEPT ![a].pc = "completed",
                          ![a].result = [kind |-> "stats", stats |-> run[a].stats]]
    /\ host' = [host EXCEPT ![a].isSorted = TRUE]
    /\ onFinish(StatsResult(a, run[a].stats))
    /\ UNCHANGED <<heap, isPaused, delay, now, props, obs>>

\* The await of the final update ends: the run resolves with stats, and
\* runSort reports the result unless cancelled.
FinalDone(a) ==
    /\ run[a].pc = "finalCallback"
    /\ run' = [run EXCEPT ![a].pc = "completed",
                          ![a].result = [kind |-> "stats", stats |-> run[a].stats]]
    /\ IF ~host[a].isCancelled
       THEN /\ host' = [host EXCEPT ![a].isSorted = TRUE]
            /\ onFinish(StatsResult(a, run[a].stats))
       ELSE UNCHANGED <<host, results, battles>>
    /\ UNCHANGED <<heap, isPaused, delay, now, props, obs>>

\* The await of the catch branch's callback ends: the run resolves with
\* undefined, and runSort reports a zero result unless cancelled.
FailDone(a) ==
    /\ run[a].pc = "failCallback"
    /\ run' = [run EXCEPT ![a].pc = "failed",
                          ![a].result = [kind |-> "undefined", stats |-> ZeroStats]]
    /\ IF ~host[a].isCancelled
       THEN onFinish(ZeroResult(a))
       ELSE UNCHANGED <<results, battles>>
    /\ UNCHANGED <<heap, isPaused, delay, now, props, host, obs>>

\* -------------------------------------------------------------- the host
\* setIsPaused(p => !p); the render writes isPausedRef of the mounted arenas.
TogglePause ==
    /\ isPaused' = ~isPaused
    /\ host' = [a \in Arenas |->
                  IF host[a].isCancelled THEN host[a]
                  ELSE [host[a] EXCEPT !.isPausedRef = ~isPaused]]
    /\ obs' = [a \in Arenas |->
                 IF InProgress(run[a].pc) /\ ~host[a].isCancelled
                 THEN [obs[a] EXCEPT !.callsPaused = 0] ELSE obs[a]]
    /\ UNCHANGED <<heap, delay, now, props, run, results, battles>>

\* The arena is rendered with another delay: the render writes delayRef, and
\* the effect, which does not depend on delay, is not run again.  (App offers
\* its delay slider on the setup screen only; this is the hook's side.)
SetDelay ==
    /\ \E d \in {0, 1} : d # delay /\ delay' = d
    /\ host' = [a \in Arenas |->
                  IF host[a].isCancelled THEN host[a]
                  ELSE [host[a] EXCEPT !.delayRef = delay']]
    /\ UNCHANGED <<heap, isPaused, now, props, run, obs, results, battles>>

\* handleReset: the battle screen unmounts, every arena's effect is cleaned
\* up (isCancelled = true) and its refs are written no more.
Reset ==
    /\ \E a \in Arenas : ~host[a].isCancelled
    /\ isPaused' = FALSE
    /\ host' = [a \in Arenas |-> [host[a] EXCEPT !.isCancelled = TRUE]]
    /\ UNCHANGED <<heap, delay, now, props, run, obs, results, battles>>

\* Time passes while every run waits.
Tick ==
    /\ now < MaxTime
    /\ now' = now + 1
    /\ obs' = [a \in Arenas |->
                 [obs[a] EXCEPT
                    !.pausedTicks = IF EmitOutstanding(run[a].pc) /\ host[a].isPausedRef
                                    THEN @ + 1 ELSE @,
                    !.blockedTicks = IF run[a].pc = "pauseSleep" THEN @ + 1 ELSE @]]
    /\ UNCHANGED <<heap, isPaused, delay, props, run, host, results, battles>>

\* ------------------------------------------------------- specifications
Arrays(n) == SeqsUpTo(Values, n)

\* The arrays BattleScreen makes: the numbers 1 .. size in some order.
Shuffled(size) ==
    {s \in [1 .. size -> 1 .. size] : \A i, j \in 1 .. size : s[i] = s[j] => i = j}

\* The arenas mounted with properties p on the array `initial`, delay d.
InitArenas(p, initial, d) ==
    /\ heap = [o \in {"initialArray", "arr1", "arr2"} |->
                 IF o = "initialArray" THEN initial ELSE <<>>]
    /\ isPaused = FALSE
    /\ delay = d
    /\ now = 0
    /\ props = p
    /\ run = [a \in Arenas |-> IdleRun]
    /\ host = [a \in Arenas |-> [MountedHost(initial) EXCEPT !.delayRef = d]]
    /\ obs = [a \in Arenas |-> NoObs]
    /\ results = <<>>
    /\ battles = <<>>

\* One arena (the second stays unmounted and idle) running `key` on `initial`;
\* bogo sort is given the shorter arrays only (BattleScreen caps its size).
InitWith(keys, texts, arrays) ==
    \E key \in keys, initial \in arrays, d \in {0, 1} :
      \E text \in (IF key = "userCode" THEN texts ELSE {EmptyText}) :
        /\ key = "bogoSort" => Len(initial) <= MaxLen
        /\ InitArenas([a \in Arenas |->
                         [algorithmKey |-> key, userCode |-> text, isRunning |-> a = 1]],
                      initial, d)

\* Three runs on longer arrays of larger numbers.
BubbleExample == <<5, 3, 8, 1>>
BogoExample == <<1, 2, 3>>
RadixExample == <<170, 45, 75, 90, 802, 24, 2, 66>>
Examples == {[key |-> "bubbleSort", input |-> BubbleExample],
             [key |-> "bogoSort", input |-> BogoExample],
             [key |-> "radixSort", input |-> RadixExample]}
InitExamples ==
    \E e \in Examples, d \in {0, 1} :
        InitArenas([a \in Arenas |->
                      [algorithmKey |-> e.key, userCode |-> EmptyText, isRunning |-> a = 1]],
                   e.input, d)

Init ==
    \/ InitWith(AlgorithmKeys, UserTexts, Arrays(MaxLen) \cup Shuffled(BattleSize))
    \/ InitExamples

Driver ==
    \E a \in Arenas :
        \/ Start(a)
        \/ CallbackDone(a)
        \/ PauseWake(a)
        \/ DelayDone(a)
        \/ FinalDone(a)
        \/ FailDone(a)

Next == Driver \/ TogglePause

Spec == Init /\ [][Next]_vars

\* The runs of a few variants on short arrays, for the host's reset.
SmallKeys == {"bubbleSort", "insertionSort", "bucketSort", "userCode"}
SmallTexts == {MutateThenThrowText, UserSortText}
InitSmall == InitWith(SmallKeys, SmallTexts, Arrays(SmallLen))

NextCancel == Next \/ Reset
SpecCancel == InitSmall /\ [][NextCancel]_vars

\* BattleScreen: two arenas, each with its variant, on the one initialArray.
BattleKeys == {"insertionSort", "userCode"}
InitBattle ==
    \E k1 \in BattleKeys, k2 \in BattleKeys, initial \in Arrays(SmallLen), d \in {0, 1} :
        InitArenas([a \in Arenas |->
                      [algorithmKey |-> IF a = 1 THEN k1 ELSE k2,
                       userCode |-> IF (IF a = 1 THEN k1 ELSE k2) = "userCode"
                                    THEN MutateThenThrowText ELSE EmptyText,
                       isRunning |-> TRUE]],
                   initial, d)
SpecBattle == InitBattle /\ [][Next]_vars

\* The deterministic variants, with every timer firing and every callback
\* returning in the end.
DeterministicKeys == BuiltinKeys \ {"bogoSort"}
InitLive == InitWith(DeterministicKeys, {EmptyText}, Arrays(SmallLen))
\* The steps of a run that has started.
Progress ==
    \E a \in Arenas :
        CallbackDone(a) \/ PauseWake(a) \/ DelayDone(a) \/ FinalDone(a) \/ FailDone(a)
SpecLive == InitLive /\ [][Next]_vars /\ WF_vars(Progress)

\* A battle that the host may reset at any moment.
SpecBattleCancel == InitBattle /\ [][NextCancel]_vars

\* The runs the host may reset, with every timer firing and every callback
\* returning in the end.
SpecCancelLive == InitSmall /\ [][NextCancel]_vars /\ WF_vars(Progress)

NextConfig == Next \/ SetDelay
SpecConfig == InitSmall /\ [][NextConfig]_vars

\* The clock is observed on two built-in variants.
ClockKeys == {"insertionSort", "bucketSort"}
InitClock == InitWith(ClockKeys, {EmptyText}, Arrays(SmallLen))

NextClock == Next \/ Tick
SpecClock == InitClock /\ [][NextClock]_vars

\* ================================================================ properties
Count(s, v) == Cardinality({i \in 1 .. Len(s) : s[i] = v})
IsPermutation(s, t) ==
    /\ Len(s) = Len(t)
    /\ \A i \in 1 .. Len(s) : Count(s, s[i]) = Count(t, s[i])
IsSortedAsc(s) ==
    \A i \in 1 .. Len(s) : s[i] # undefined /\ (i < Len(s) => s[i] <= s[i + 1])

Key(a) == props[a].algorithmKey
Text(a) == props[a].userCode
Succeeded(a) == run[a].pc \in {"finalCallback", "completed"}
Failed(a) == run[a].pc \in {"failCallback", "failed"}

\* C1 (as stated): for every built-in variant and every input array, a run
\* that completes delivers in its final callback a sorted permutation of the
\* input.
C1_AnyNumbers ==
    \A a \in Arenas :
        (Succeeded(a) /\ Key(a) \in BuiltinKeys)
            => (IsSortedAsc(obs[a].last.arr) /\ IsPermutation(obs[a].last.arr, obs[a].input))

C1_Witness ==
    \E a \in Arenas :
        /\ run[a].pc = "completed" /\ Key(a) = "radixSort"
        /\ obs[a].input = <<1, 0 - 1>>
        /\ obs[a].last.arr = <<1, undefined>>

\* C2: when the variant returns, the driver makes exactly one callback after
\* the variant's emits, with a copy of the final working array, no
\* highlights, the final counters and no error message; it is the last one,
\* and the run resolves with those counters.
C2_FinalCallback ==
    \A a \in Arenas :
        Succeeded(a) =>
            /\ obs[a].calls = obs[a].emits + 1
            /\ obs[a].last.obj = "copy"
            /\ obs[a].last.arr = heap[run[a].arr]
            /\ obs[a].last.highlights = NoHighlights
            /\ obs[a].last.stats = run[a].stats
            /\ obs[a].last.errorMessage = <<>>
            /\ run[a].pc = "completed" =>
                   run[a].result = [kind |-> "stats", stats |-> obs[a].last.stats]

C2_Witness ==
    \E a \in Arenas :
        /\ run[a].pc = "completed" /\ Key(a) = "insertionSort"
        /\ obs[a].emits >= 2 /\ obs[a].last.arr # obs[a].input

\* C3: when the variant throws, the driver makes exactly one callback after
\* the failure, with the pre-run array (not the working array), the counters
\* as they stood at the failure and a message; no success callback follows
\* and the run resolves with no result.
C3_FailureCallback ==
    \A a \in Arenas :
        Failed(a) =>
            /\ obs[a].calls = obs[a].emits + 1
            /\ obs[a].last.arr = obs[a].input
            /\ obs[a].last.highlights = NoHighlights
            /\ obs[a].last.stats.comparisons = run[a].stats.comparisons
            /\ obs[a].last.stats.swaps = run[a].stats.swaps
            /\ obs[a].last.stats.writes = run[a].stats.writes
            /\ (Key(a) = "userCode" /\ Text(a) = MutateThenThrowText) =>
                   /\ obs[a].last.stats.comparisons = 1 /\ obs[a].last.stats.writes = 1
                   /\ heap[run[a].arr] = Reverse(obs[a].input)
            /\ obs[a].last.errorMessage # <<>>
            /\ ~host[a].isSorted
            /\ run[a].pc = "failed" => run[a].result.kind = "undefined"

C3_Witness ==
    \E a \in Arenas :
        /\ run[a].pc = "failed" /\ Text(a) = MutateThenThrowText
        /\ heap[run[a].arr] # obs[a].input /\ obs[a].emits = 1

\* The texts of UserTexts that fail: in the compile step, or when run.
CompileFailTexts ==
    {BlankText, SyntaxErrorText, NotCallableText, EvalThrowsValueText, DEFAULT_USER_CODE}
RuntimeFailTexts == {ThrowsErrorText, ThrowsValueText, MutateThenThrowText}

EndsInFailureCallback(a) ==
    /\ run[a].pc = "failed"
    /\ obs[a].calls = obs[a].emits + 1
    /\ obs[a].last.errorMessage # <<>>
    /\ run[a].result.kind = "undefined"

\* C4 (as stated): every failing user text, the empty one included, ends in
\* one terminal callback with a message and an absent result, nothing being
\* thrown out of getAlgorithmRunner or the run.
C4_EveryText ==
    \A a \in Arenas :
        (Key(a) = "userCode" /\ Terminal(run[a].pc)
           /\ Text(a) \in {EmptyText} \cup CompileFailTexts \cup RuntimeFailTexts)
            => EndsInFailureCallback(a)

\* C4 (amended): that holds of every failing text that is not empty; for the
\* empty text getAlgorithmRunner throws before a run exists: no callback is
\* made, and runSort's catch shows a fatal error and reports a zero result.
C4_FailureIsReported ==
    \A a \in Arenas :
        (Key(a) = "userCode" /\ Terminal(run[a].pc)) =>
            /\ Text(a) \in CompileFailTexts \cup RuntimeFailTexts => EndsInFailureCallback(a)
            /\ Text(a) = EmptyText =>
                   /\ run[a].pc = "fatal" /\ run[a].result.kind = "thrown"
                   /\ obs[a].calls = 0
                   /\ host[a].error # <<>> /\ Head(host[a].error) = "Fatal error in "
                   /\ results = <<ZeroResult(a)>>

C4_Witness ==
    \E a \in Arenas :
        /\ Key(a) = "userCode" /\ Text(a) = NotCallableText /\ run[a].pc = "failed"
        /\ results = <<ZeroResult(a)>>

\* C5: a text that fails the compile step fails the run before any emit: the
\* working array equals the input and the failure callback carries
\* comparisons = swaps = writes = 0.
C5_CompileFailureIsClean ==
    \A a \in Arenas :
        (Key(a) = "userCode" /\ Text(a) \in CompileFailTexts) =>
            /\ run[a].pc \in {"idle", "failCallback", "failed"}
            /\ Failed(a) =>
                   /\ obs[a].emits = 0 /\ obs[a].calls = 1
                   /\ heap[run[a].arr] = obs[a].input
                   /\ obs[a].last.stats.comparisons = 0
                   /\ obs[a].last.stats.swaps = 0
                   /\ obs[a].last.stats.writes = 0

C5_Witness ==
    \E a \in Arenas :
        /\ Key(a) = "userCode" /\ Text(a) = SyntaxErrorText /\ run[a].pc = "failed"
        /\ Len(obs[a].input) = MaxLen

\* The message of the Error the loader threw: the driver hands the callback
\* `Error: ` + that message.
LoaderMessage(a) == Tail(obs[a].last.errorMessage)

\* C6 (as stated): the loader's message begins `Compilation Error:` for every
\* compile-step failure and `Runtime Error:` for every failure of the call,
\* whatever was thrown.
C6_AlwaysPrefixed ==
    \A a \in Arenas :
        (Key(a) = "userCode" /\ Failed(a)) =>
            /\ Text(a) \in CompileFailTexts => Head(LoaderMessage(a)) = "Compilation Error: "
            /\ Text(a) \in RuntimeFailTexts => Head(LoaderMessage(a)) = "Runtime Error: "

\* C6 (amended): the prefixes are given when an Error was thrown (the
\* non-callable case included); a thrown value that is no Error yields the
\* fixed message `An unknown compilation error occurred.` or `An unknown
\* runtime error occurred.`, without prefix.
C6_PrefixedWhenError ==
    \A a \in Arenas :
        (Key(a) = "userCode" /\ Failed(a)) =>
            /\ Text(a) \in CompileFailTexts \ {EvalThrowsValueText}
                   => Head(LoaderMessage(a)) = "Compilation Error: "
            /\ Text(a) = EvalThrowsValueText
                   => LoaderMessage(a) = <<"An unknown compilation error occurred.">>
            /\ Text(a) \in RuntimeFailTexts \ {ThrowsValueText}
                   => Head(LoaderMessage(a)) = "Runtime Error: "
            /\ Text(a) = ThrowsValueText
                   => LoaderMessage(a) = <<"An unknown runtime error occurred.">>

C6_Witness ==
    \E a \in Arenas :
        /\ Key(a) = "userCode" /\ Text(a) = ThrowsValueText /\ run[a].pc = "failed"
        /\ host[a].error = <<"An unknown runtime error occurred.">>

C8_NeverTheCallersArray ==
    \A a \in Arenas :
        run[a].pc # "idle" =>
            /\ run[a].arr # "initialArray"
            /\ obs[a].last.obj # "initialArray"
            /\ heap["initialArray"] = obs[a].input

\* C8 (amended): the working array, every emit's snapshot and the final
\* callback's array are copies, and the driver never writes the caller's
\* array; the failure callback alone is handed the caller's array object.
C8_CopiesExceptOnFailure ==
    \A a \in Arenas :
        run[a].pc \notin {"idle", "fatal"} =>
            /\ run[a].arr # "initialArray"
            /\ obs[a].last.obj = (IF Failed(a) THEN "initialArray" ELSE "copy")
            /\ heap["initialArray"] = obs[a].input

C8_Witness ==
    \E a \in Arenas :
        /\ run[a].pc = "completed" /\ heap[run[a].arr] # obs[a].input
        /\ heap["initialArray"] = obs[a].input /\ Len(obs[a].input) = MaxLen

\* C9 (as stated): a completed run reports (end - start) less all the time
\* the pause predicate was true during the run.
C9_ExcludesAllPausedTime ==
    \A a \in Arenas :
        Succeeded(a) =>
            run[a].stats.time = (obs[a].endTime - run[a].startTime) - obs[a].pausedTicks

\* C9 (amended): it reports (end - start) less the time the run spent in the
\* pause wait of its emits, from a pause check that found the predicate true
\* to the first poll that finds it false; time the predicate is true during a
\* callback delivery or a delay is not taken off.
C9_ExcludesPauseWait ==
    \A a \in Arenas :
        Succeeded(a) =>
            run[a].stats.time = (obs[a].endTime - run[a].startTime) - obs[a].blockedTicks

C9_Witness ==
    \E a \in Arenas :
        /\ run[a].pc = "completed" /\ obs[a].blockedTicks >= 2
        /\ obs[a].endTime - run[a].startTime > obs[a].blockedTicks

\* The previous emit of run a has finished: its callback was awaited, the
\* pause predicate was found false and no delay is left to wait for.
PreviousEmitFinished(a) ==
    \/ run[a].pc = "idle"
    \/ run[a].pc \in {"callback", "pauseSleep"} /\ ~host[a].isPausedRef /\ host[a].delayRef = 0
    \/ run[a].pc = "delaySleep"

\* C10: callbacks of a run are made one at a time in the order of the emits:
\* none starts before the previous emit (its pause wait and delay included)
\* has finished, and while an emit is outstanding the working array and the
\* counters are those of the snapshot it delivered.
C10_Sequential ==
    /\ [](\A a \in Arenas :
            EmitOutstanding(run[a].pc) =>
                /\ obs[a].last.arr = heap[run[a].arr]
                /\ obs[a].last.stats = run[a].stats
                /\ obs[a].calls = obs[a].emits)
    /\ [][\A a \in Arenas :
            obs'[a].calls # obs[a].calls =>
                /\ obs'[a].calls = obs[a].calls + 1
                /\ PreviousEmitFinished(a)]_vars

C10_Witness ==
    \E a \in Arenas :
        /\ run[a].pc = "delaySleep" /\ obs[a].emits >= 3
        /\ run[a].pausedTime = 0 /\ host[a].isPausedRef

Counters == {"comparisons", "swaps", "writes"}
\* The driver invokes the callback of arena a in this step.
Invokes(a) == obs'[a].calls # obs[a].calls
IsEmit(a) == obs'[a].emits # obs[a].emits

\* C11 (as stated): from one callback invocation of a run to the next no
\* counter decreases, and time is 0 in every emit - for every variant, a
\* user's that hands counter values to update included.
C11_NeverDecrease ==
    [][\A a \in Arenas :
         Invokes(a) =>
             /\ \A f \in Counters : obs'[a].last.stats[f] >= obs[a].last.stats[f]
             /\ IsEmit(a) => obs'[a].last.stats.time = 0]_vars

\* C11 (amended): that holds of every built-in variant and of a user's
\* variant that only increments the counters; the values a variant hands to
\* update overwrite the counters, so that a smaller value makes a counter
\* decrease (the second update of OverwriteText delivers writes = 1 after
\* writes = 2).
C11_NeverDecreaseUnlessOverwritten ==
    [][\A a \in Arenas :
         Invokes(a) =>
             /\ IsEmit(a) => obs'[a].last.stats.time = 0
             /\ IF Key(a) = "userCode" /\ Text(a) = OverwriteText
                THEN IsEmit(a) =>
                         /\ obs'[a].last.stats.swaps = 1
                         /\ obs'[a].last.stats.writes = 3 - obs'[a].emits
                ELSE \A f \in Counters : obs'[a].last.stats[f] >= obs[a].last.stats[f]]_vars

C11_Witness ==
    \E a \in Arenas :
        /\ Key(a) = "userCode" /\ Text(a) = OverwriteText /\ run[a].pc = "completed"
        /\ obs[a].emits = 2 /\ obs[a].last.stats.writes = 1 /\ host[a].stats.writes = 1

ExchangeKeys == {"bubbleSort", "selectionSort", "quickSort", "heapSort", "bogoSort"}
MoveKeys == {"mergeSort", "radixSort"}

\* C12 (as stated): over a completed run the swaps and writes values handed
\* to update add up to the final swaps and writes.
C12_DeltasAddUp ==
    \A a \in Arenas :
        run[a].pc = "completed" =>
            /\ obs[a].passed.swaps = run[a].result.stats.swaps
            /\ obs[a].passed.writes = run[a].result.stats.writes

\* C12 (amended): a built-in variant hands no counter value to update; it
\* increments the counters object itself, and the final counters hold every
\* increment: writes = 2 * swaps for the variants that exchange, writes =
\* swaps for merge and radix sort, writes = swaps + (n - 1) for insertion
\* sort (n > 0), swaps = writes = n for bucket sort.  Values a user's variant
\* hands to update overwrite: the final counter is the last value handed
\* over, not the sum.
C12_NoIncrementLost ==
    \A a \in Arenas :
        run[a].pc = "completed" =>
            LET st == run[a].result.stats
                n == Len(obs[a].input)
            IN  /\ Key(a) \in BuiltinKeys => obs[a].passed = [swaps |-> 0, writes |-> 0]
                /\ Key(a) \in ExchangeKeys => st.writes = 2 * st.swaps
                /\ Key(a) \in MoveKeys => st.writes = st.swaps
                /\ Key(a) = "insertionSort" =>
                       st.writes = st.swaps + (IF n > 0 THEN n - 1 ELSE 0)
                /\ Key(a) = "bucketSort" => st.swaps = n /\ st.writes = n
                /\ (Key(a) = "userCode" /\ Text(a) = OverwriteText) =>
                       /\ obs[a].passed = [swaps |-> 2, writes |-> 3]
                       /\ st.swaps = 1 /\ st.writes = 1

C12_Witness ==
    \E a \in Arenas :
        /\ run[a].pc = "completed" /\ Key(a) = "quickSort"
        /\ run[a].result.stats.swaps >= 3 /\ obs[a].passed.swaps = 0

SameCounters(st, xst) == \A f \in Counters : st[f] = xst[f]

\* Run a, as far as it has come, is execution x of its variant on its input:
\* its emits are the first ones of x, snapshot for snapshot, and its end is
\* the end of x.
FollowsExecution(a, x) ==
    LET k == obs[a].emits
        pc == run[a].pc
    IN  /\ k <= Len(x.ev)
        /\ EmitOutstanding(pc) =>
               /\ k >= 1
               /\ obs[a].last.arr = x.ev[k].arr
               /\ obs[a].last.highlights = x.ev[k].highlights
               /\ obs[a].last.stats = x.ev[k].stats
               /\ heap[run[a].arr] = x.ev[k].arr
        /\ Succeeded(a) =>
               /\ x.out = "return" /\ k = Len(x.ev)
               /\ obs[a].last.arr = x.arr /\ SameCounters(obs[a].last.stats, x.stats)
               /\ obs[a].last.highlights = NoHighlights
        /\ Failed(a) =>
               /\ x.out \in {"throwError", "throwValue"} /\ k = Len(x.ev)
               /\ obs[a].last.arr = obs[a].input /\ SameCounters(obs[a].last.stats, x.stats)
               /\ x.out = "throwError" => obs[a].last.errorMessage = <<"Error: ">> \o x.msg
        /\ run[a].pc = "completed" => SameCounters(run[a].result.stats, x.stats)

\* C13: two runs on one input array object, in any interleaving of their
\* steps: each delivers the snapshots, highlights and counters, and ends
\* with the result, of its variant run alone on that input from zeroed
\* counters, and the input array keeps its contents.
C13_RunsDoNotInteract ==
    \A a \in Arenas :
        run[a].pc \notin {"idle", "fatal"} =>
            /\ obs[a].input = heap["initialArray"]
            /\ run[a].arr # "initialArray"
            /\ \E x \in Executions(Key(a), Text(a), obs[a].input) : FollowsExecution(a, x)

C13_Witness ==
    /\ run[1].pc = "delaySleep" /\ run[2].pc = "pauseSleep"
    /\ Key(1) = "insertionSort" /\ Key(2) = "insertionSort"
    /\ obs[1].emits = 1 /\ obs[2].emits = 2
    /\ heap["arr1"] # heap["arr2"]

\* C14: bubble sort on [5,3,8,1] completes with [1,3,5,8], comparisons = 6
\* and swaps = 4.
C14_BubbleExample ==
    \A a \in Arenas :
        (Key(a) = "bubbleSort" /\ obs[a].input = BubbleExample) =>
            /\ ~Failed(a) /\ run[a].pc # "fatal"
            /\ Succeeded(a) =>
                   /\ obs[a].last.arr = <<1, 3, 5, 8>>
                   /\ obs[a].last.stats.comparisons = 6
                   /\ obs[a].last.stats.swaps = 4
            /\ run[a].pc = "completed" =>
                   /\ run[a].result.stats.comparisons = 6 /\ run[a].result.stats.swaps = 4
                   /\ host[a].array = <<1, 3, 5, 8>> /\ host[a].isSorted

C14_Witness ==
    \E a \in Arenas :
        /\ Key(a) = "bubbleSort" /\ obs[a].input = BubbleExample /\ run[a].pc = "completed"
        /\ obs[a].emits = 10

\* C15: bogo sort on the sorted [1,2,3] shuffles not once: it completes with
\* swaps = 0 and comparisons = 2, and the completion callback is the only
\* callback of the run.
C15_BogoSortedExample ==
    \A a \in Arenas :
        (Key(a) = "bogoSort" /\ obs[a].input = BogoExample) =>
            /\ run[a].pc \in {"idle", "finalCallback", "completed"}
            /\ Succeeded(a) =>
                   /\ obs[a].calls = 1 /\ obs[a].emits = 0
                   /\ obs[a].last.arr = BogoExample
                   /\ obs[a].last.stats.swaps = 0 /\ obs[a].last.stats.writes = 0
                   /\ obs[a].last.stats.comparisons = 2

C15_Witness ==
    \E a \in Arenas :
        /\ Key(a) = "bogoSort" /\ obs[a].input = BogoExample /\ run[a].pc = "completed"
        /\ results = <<[arena |-> a, time |-> 0, comparisons |-> 2, swaps |-> 0, writes |-> 0]>>

RECURSIVE DecimalDigits(_)
DecimalDigits(m) == IF m < 10 THEN 1 ELSE 1 + DecimalDigits(m \div 10)
NonNegative(arr) == \A i \in 1 .. Len(arr) : arr[i] >= 0
\* The digit passes of a completed radix sort: each pass moves every element.
Passes(a) == run[a].stats.swaps \div Len(obs[a].input)

\* C16 (as stated): radix sort on [170,45,75,90,802,24,2,66] makes 3 passes
\* and delivers [2,24,45,66,75,90,170,802]; on every array of non-negative
\* integers the passes are as many as the maximum has decimal digits.
C16_PassesAreDigits ==
    \A a \in Arenas :
        (Key(a) = "radixSort" /\ Succeeded(a) /\ obs[a].input # <<>> /\ NonNegative(obs[a].input)) =>
            /\ Passes(a) = DecimalDigits(getMax(obs[a].input))
            /\ run[a].stats.swaps = Passes(a) * Len(obs[a].input)
            /\ obs[a].input = RadixExample =>
                   Passes(a) = 3 /\ obs[a].last.arr = <<2, 24, 45, 66, 75, 90, 170, 802>>

\* C16 (amended): the same, the passes being as many as the maximum has
\* decimal digits when the maximum is at least 1, and none when it is 0.
C16_PassesAreDigitsOfPositiveMax ==
    \A a \in Arenas :
        (Key(a) = "radixSort" /\ Succeeded(a) /\ obs[a].input # <<>> /\ NonNegative(obs[a].input)) =>
            /\ Passes(a) = (IF getMax(obs[a].input) = 0 THEN 0
                            ELSE DecimalDigits(getMax(obs[a].input)))
            /\ run[a].stats.swaps = Passes(a) * Len(obs[a].input)
            /\ obs[a].input = RadixExample =>
                   Passes(a) = 3 /\ obs[a].last.arr = <<2, 24, 45, 66, 75, 90, 170, 802>>

C16_Witness ==
    \E a \in Arenas :
        /\ Key(a) = "radixSort" /\ obs[a].input = RadixExample /\ run[a].pc = "completed"
        /\ obs[a].emits = 24

Grows(a, f) == obs'[a].last.stats[f] - obs[a].last.stats[f]

\* C18 (as stated): from one callback of a run to the next, the final one
\* included, comparisons grows by at most 1 and swaps by at most 1, for
\* every built-in variant.
C18_OneStepPerEmit ==
    [][\A a \in Arenas :
         (Invokes(a) /\ Key(a) \in BuiltinKeys) =>
             Grows(a, "comparisons") <= 1 /\ Grows(a, "swaps") <= 1]_vars

\* The variants that emit at every comparison and at every exchange or move.
SteppingKeys == BuiltinKeys \ {"bucketSort", "bogoSort"}

\* C18 (amended): that holds of bubble, selection, insertion, quick, merge,
\* heap and radix sort.  Bucket sort counts the moves of all n elements into
\* the buckets before its first emit; bogo sort emits once per shuffle,
\* after the comparisons of the sortedness check and the n - 1 exchanges of
\* the shuffle.
C18_OneStepPerEmitButBucketAndBogo ==
    [][\A a \in Arenas :
         Invokes(a) =>
             /\ Key(a) \in SteppingKeys =>
                    Grows(a, "comparisons") <= 1 /\ Grows(a, "swaps") <= 1
             /\ (Key(a) = "bucketSort" /\ IsEmit(a) /\ obs[a].calls = 0) =>
                    Grows(a, "swaps") = Len(obs'[a].input)
             /\ (Key(a) = "bogoSort" /\ IsEmit(a)) =>
                    Grows(a, "swaps") = Len(obs'[a].input) - 1]_vars

C18_Witness ==
    \E a \in Arenas :
        /\ Key(a) = "bucketSort" /\ run[a].pc = "callback" /\ obs[a].emits = 1
        /\ obs[a].last.stats.swaps = MaxLen

BlockedInPauseWait(a) == run[a].pc = "pauseSleep" /\ run'[a].pc = "pauseSleep"

\* C20: while an emit is blocked in the pause wait, the working array, the
\* counters and the variant's position stay as they are and the run delivers
\* no callback; and a run that has been blocked in the pause wait delivers,
\* from there to its end, the snapshots, highlights and counters of its
\* variant's execution on its input, as a run that never paused does.
C20_PauseKeepsState ==
    /\ [][\A a \in Arenas :
              BlockedInPauseWait(a) =>
                  /\ heap'[run[a].arr] = heap[run[a].arr]
                  /\ run'[a].stats = run[a].stats
                  /\ run'[a].cont = run[a].cont
                  /\ obs'[a].calls = obs[a].calls
                  /\ obs'[a].last = obs[a].last]_vars
    /\ [](\A a \in Arenas :
              obs[a].blockedTicks > 0 =>
                  \E x \in Executions(Key(a), Text(a), obs[a].input) : FollowsExecution(a, x))

C20_Witness ==
    \E a \in Arenas :
        /\ Succeeded(a) /\ obs[a].blockedTicks > 0 /\ ~isPaused
        /\ obs[a].emits >= 2 /\ obs[a].last.stats.swaps > 0

\* C21: once the effect of an arena is cleaned up (isCancelled = true), the
\* callbacks of its run leave the arena's array, highlights, counters and
\* error as they are, and the end of the run, completed or failed, pushes
\* no result of that arena to the battle.
C21_CancelledRunReportsNothing ==
    [][\A a \in Arenas :
          host[a].isCancelled =>
              /\ host'[a].array = host[a].array
              /\ host'[a].highlights = host[a].highlights
              /\ host'[a].stats = host[a].stats
              /\ host'[a].error = host[a].error
              /\ \A i \in (Len(results) + 1) .. Len(results') : results'[i].arena # a
              /\ (run[a].pc \in {"finalCallback", "failCallback"} /\ run'[a].pc # run[a].pc) =>
                     results' = results /\ battles' = battles]_vars

C21_Witness ==
    /\ \E a \in Arenas : host[a].isCancelled /\ run[a].pc = "completed" /\ obs[a].cancelledCalls >= 1
    /\ results = <<>>

\* The pairs of positions of s that are out of order.
Inversions(s) ==
    Cardinality({p \in (1 .. Len(s)) \X (1 .. Len(s)) : p[1] < p[2] /\ s[p[1]] > s[p[2]]})

\* C22: insertion sort on an input of length n >= 1 ends with swaps = the
\* number of shifts (the emits that highlight a swapping pair) = the number
\* of inversions of the input, writes = swaps + (n - 1), and comparisons =
\* swaps + the number of inserted elements that are not put at position 0
\* (those with a smaller or equal element before them in the input).
C22_InsertionCounters ==
    \A a \in Arenas :
        (Key(a) = "insertionSort" /\ Succeeded(a) /\ Len(obs[a].input) >= 1) =>
            LET input == obs[a].input
                n == Len(input)
                st == obs[a].last.stats
                notAtZero == Cardinality({i \in 2 .. n : \E k \in 1 .. (i - 1) : input[k] <= input[i]})
            IN  /\ st.swaps = Inversions(input)
                /\ \A x \in Executions(Key(a), Text(a), input) :
                       st.swaps = Cardinality({k \in 1 .. Len(x.ev) : x.ev[k].highlights.swapping # <<>>})
                /\ st.writes = st.swaps + (n - 1)
                /\ st.comparisons = st.swaps + notAtZero

C22_Witness ==
    \E a \in Arenas :
        /\ Key(a) = "insertionSort" /\ run[a].pc = "completed"
        /\ Len(obs[a].input) = BattleSize
        /\ obs[a].last.stats.swaps >= 3
        /\ obs[a].last.stats.comparisons > obs[a].last.stats.swaps

\* C23: on the array a quick sort run is given, partition of any range
\* [low, high] with low < high adds high - low comparisons and, for each
\* element of [low, high - 1] below the pivot arr[high] and once more for
\* the pivot's placement, one swap and two writes (an exchange of an index
\* with itself included); it returns p with the elements of [low, p - 1]
\* below the pivot and those of [p + 1, high] not below it, the pivot at p,
\* and the rest of the array as it was; sort of a range with low >= high
\* changes nothing and emits nothing.
C23_Partition ==
    \A a \in Arenas :
        (Key(a) = "quickSort" /\ Succeeded(a)) =>
            LET input == obs[a].input
                r0 == Begin(input, ZeroStats)
                idx == 0 .. (Len(input) - 1)
            IN  \A low \in idx, high \in idx :
                    IF low < high
                    THEN LET p == partition(r0, low, high)
                             pivot == At(input, high)
                             below == Cardinality({j \in low .. (high - 1) : At(input, j) < pivot})
                         IN  /\ p.r.stats.comparisons = high - low
                             /\ p.r.stats.swaps = below + 1
                             /\ p.r.stats.writes = 2 * (below + 1)
                             /\ Len(p.r.ev) = (high - low) + below + 1
                             /\ p.pi = low + below
                             /\ At(p.r.arr, p.pi) = pivot
                             /\ \A j \in low .. (p.pi - 1) : At(p.r.arr, j) < pivot
                             /\ \A j \in (p.pi + 1) .. high : At(p.r.arr, j) >= pivot
                             /\ \A j \in idx \ (low .. high) : At(p.r.arr, j) = At(input, j)
                             /\ IsPermutation(p.r.arr, input)
                    ELSE QuickSort(r0, low, high) = r0

C23_Witness ==
    \E a \in Arenas :
        /\ Key(a) = "quickSort" /\ run[a].pc = "completed"
        /\ Len(obs[a].input) = BattleSize /\ IsSortedAsc(obs[a].input)
        /\ obs[a].last.stats.swaps >= BattleSize

\* C24: on the array a merge sort run is given, merge of any [l, m, r] adds
\* r - l + 1 to swaps and to writes and at most r - l to comparisons; its
\* comparisons are those of the first loop, one per element placed while
\* both halves have elements left, and the two draining loops add none; and
\* every callback of the run is handed swaps = writes.
C24_Merge ==
    \A a \in Arenas :
        (Key(a) = "mergeSort" /\ obs[a].calls > 0) =>
            /\ obs[a].last.stats.swaps = obs[a].last.stats.writes
            /\ Succeeded(a) =>
                   LET input == obs[a].input
                       r0 == Begin(input, ZeroStats)
                       idx == 0 .. (Len(input) - 1)
                   IN  \A l \in idx, m \in idx, r_ \in idx :
                           (l <= m /\ m < r_) =>
                               LET L == SubSeq(input, l + 1, m + 1)
                                   R == SubSeq(input, m + 2, r_ + 1)
                                   both == MergeBoth(r0, L, R, 0, 0, l)
                                   c == both.r.stats.comparisons
                                   done == merge(r0, l, m, r_)
                               IN  /\ done.stats.swaps = r_ - l + 1
                                   /\ done.stats.writes = r_ - l + 1
                                   /\ done.stats.comparisons <= r_ - l
                                   /\ done.stats.comparisons = c
                                   /\ c = both.i + both.j
                                   /\ both.i = Len(L) \/ both.j = Len(R)
                                   /\ Len(done.ev) = r_ - l + 1
                                   /\ \A k \in 1 .. Len(done.ev) :
                                          /\ done.ev[k].stats.comparisons = IF k <= c THEN k ELSE c
                                          /\ done.ev[k].stats.swaps = k
                                          /\ done.ev[k].stats.writes = k

C24_Witness ==
    \E a \in Arenas :
        /\ Key(a) = "mergeSort" /\ run[a].pc = "completed"
        /\ Len(obs[a].input) = BattleSize
        /\ obs[a].last.stats.swaps = 2 * BattleSize
        /\ obs[a].last.stats.comparisons = BattleSize

\* C25: bucket sort on a non-empty array of non-negative integers (an array
\* of zeros included) makes floor(sqrt(n)) buckets, computes for every
\* element a bucket index in [0, bucketCount), does not fail, and completes
\* with comparisons = 0, swaps = n and writes = n.
C25_BucketSortNonNegative ==
    \A a \in Arenas :
        (Key(a) = "bucketSort" /\ run[a].pc # "idle"
            /\ Len(obs[a].input) >= 1 /\ NonNegative(obs[a].input)) =>
            LET input == obs[a].input
                n == Len(input)
                bucketCount == FloorSqrt(n)
            IN  /\ bucketCount >= 1
                /\ bucketCount * bucketCount <= n
                /\ (bucketCount + 1) * (bucketCount + 1) > n
                /\ \A i \in 1 .. n :
                       BucketIndex(input[i], MaxOr1(input), bucketCount) \in 0 .. (bucketCount - 1)
                /\ ~Failed(a)
                /\ \A x \in Executions(Key(a), Text(a), input) :
                       x.out = "return" /\ Len(x.ev) = n
                /\ Succeeded(a) =>
                       /\ obs[a].last.stats.comparisons = 0
                       /\ obs[a].last.stats.swaps = n
                       /\ obs[a].last.stats.writes = n

C25_Witness ==
    \E a \in Arenas :
        /\ Key(a) = "bucketSort" /\ run[a].pc = "completed"
        /\ Len(obs[a].input) = BattleSize
        /\ obs[a].last.stats.writes = BattleSize
        /\ IsSortedAsc(obs[a].last.arr) /\ ~IsSortedAsc(obs[a].input)

\* C26: in a battle every arena pushes at most one result, and one whose
\* run has ended while its effect was not cleaned up has pushed exactly one:
\* the final counters of a run that resolved with stats, zeros otherwise;
\* onBattleComplete is invoked once, at the second result, with two results,
\* and not at all before.
C26_OneResultEach ==
    \A a \in Arenas :
        LET mine == {i \in 1 .. Len(results) : results[i].arena = a}
        IN  /\ Cardinality(mine) <= 1
            /\ (Terminal(run[a].pc) /\ ~host[a].isCancelled) => Cardinality(mine) = 1
            /\ \A i \in mine :
                   /\ Terminal(run[a].pc)
                   /\ results[i] = IF run[a].result.kind = "stats"
                                   THEN StatsResult(a, run[a].result.stats)
                                   ELSE ZeroResult(a)
                   /\ run[a].pc = "completed" <=> run[a].result.kind = "stats"
            /\ battles = IF Len(results) = 2 THEN <<2>> ELSE <<>>

C26_Witness ==
    /\ Len(results) = 2 /\ battles = <<2>>
    /\ results[1].arena = 2 /\ results[1].swaps > 0
    /\ results[2] = ZeroResult(1) /\ run[1].pc = "failed"

\* C27: every callback of a built-in variant's run is handed highlights of
\* at most two indices, comparing and swapping together, each of them an
\* index 0 .. n - 1 of the array handed over with it, whose length n is the
\* input's.
C27_HighlightsInRange ==
    \A a \in Arenas :
        (Key(a) \in BuiltinKeys /\ obs[a].calls > 0) =>
            LET h == obs[a].last.highlights
                n == Len(obs[a].last.arr)
            IN  /\ n = Len(obs[a].input)
                /\ Len(h.comparing) + Len(h.swapping) <= 2
                /\ \A k \in 1 .. Len(h.comparing) : h.comparing[k] \in 0 .. (n - 1)
                /\ \A k \in 1 .. Len(h.swapping) : h.swapping[k] \in 0 .. (n - 1)

C27_Witness ==
    \E a \in Arenas :
        /\ Key(a) = "heapSort" /\ run[a].pc = "callback"
        /\ Len(obs[a].input) = BattleSize
        /\ obs[a].last.highlights.swapping = <<0, BattleSize - 1>>

\* C28: while the pause flag an arena's run reads has stayed true, the run
\* has made at most one callback invocation since the flag became true: the
\* one of the emit, or of the end of the variant, that follows a pause check
\* made before.  (callsPaused counts the invocations since the flag was
\* last set.)
C28_OneMoreCallbackWhilePaused ==
    \A a \in Arenas :
        /\ obs[a].callsPaused <= 1
        /\ (host[a].isPausedRef /\ obs[a].callsPaused = 1) => run[a].pc # "delaySleep"

C28_Witness ==
    \E a \in Arenas :
        /\ run[a].pc = "completed" /\ host[a].isPausedRef /\ obs[a].callsPaused = 1
        /\ obs[a].emits >= 2 /\ Key(a) = "selectionSort"

\* C29 (as stated): a run whose arena the host has reset ends, completed or
\* failed, also when the reset finds it in the pause loop.
C29_CancelledRunTerminates ==
    \A a \in Arenas :
        []((host[a].isCancelled /\ run[a].pc # "idle") => <>Terminal(run[a].pc))

\* C29 (what the code gives): the run of a reset arena ends when the pause
\* flag its arena last wrote is false; the unmounted arena writes the flag
\* no more.
C29_TerminatesUnlessPausedAtReset ==
    \A a \in Arenas :
        []((host[a].isCancelled /\ ~host[a].isPausedRef /\ run[a].pc # "idle")
               => <>Terminal(run[a].pc))

\* A reset arena whose run sleeps in the pause loop on a flag nobody clears.
C29_Witness ==
    \E a \in Arenas :
        /\ host[a].isCancelled /\ run[a].pc = "pauseSleep"
        /\ host[a].isPausedRef /\ ~isPaused

\* C30: every array a run of bubble, selection, quick, heap or bogo sort
\* hands to the callback, at an emit as at its end, is a permutation of the
\* input array.
C30_SnapshotsArePermutations ==
    \A a \in Arenas :
        (Key(a) \in ExchangeKeys /\ obs[a].calls > 0) =>
            /\ IsPermutation(obs[a].last.arr, obs[a].input)
            /\ EmitOutstanding(run[a].pc) => IsPermutation(heap[run[a].arr], obs[a].input)

C30_Witness ==
    \E a \in Arenas :
        /\ Key(a) = "quickSort" /\ run[a].pc = "pauseSleep"
        /\ Len(obs[a].input) = BattleSize
        /\ obs[a].last.arr # obs[a].input /\ ~IsSortedAsc(obs[a].last.arr)
        /\ obs[a].last.highlights.swapping # <<>>

====
